---- MODULE Spec2Model ----
(***************************************************************************)
(* A model of astronautlabs/datastore: the FbDataStore facade over a       *)
(* Firestore-like document store (browser binding                          *)
(* packages/datastore-firestore/src/browser/datastore.firestore-browser.ts *)
(* and the server binding, unnamed/part_000), its operations on documents  *)
(* and collections, transact and the Transaction Handle, its composite     *)
(* operations (mirror, mirrorInTransaction, createAndMirror, multiUpdate)  *)
(* and the lazy, reference-counted change feed (lazyConnection).           *)
(*                                                                         *)
(* A document is a function from field names to values; a path is a        *)
(* sequence of segments.  In the composite operations and in transactions  *)
(* every await on a backend request is a step boundary: the code between   *)
(* two awaits is one action.                                               *)
(***************************************************************************)
EXTENDS Naturals, Sequences, FiniteSets, TLC

\* ------------------------------------------------------------------ bounds

\* Facade calls started in one behaviour.
MaxCalls == 2
\* Writes by other clients of the same backend in one behaviour.
MaxExt == 2
\* Attempts the backend gives a transaction whose reads went stale.
MaxAttempts == 2

\* Subscribe operations on one feed in one behaviour.
MaxSubs == 3
\* Backend change notifications raised for one feed in one behaviour.
MaxChanges == 2
\* Calls of unsubscribe on subscriptions that are already closed, in one behaviour.
MaxAgain == 2

\* The largest limit a caller passes in CollectionParams.
MaxLimit == 2
\* Query objects made by query() and where() in one behaviour.
MaxQueries == 3

\* ------------------------------------------------------------------ values

\* What snapshot.data() yields for a path with no document.
Undefined == [undefined |-> TRUE]

NoError == [name |-> "none"]

\* The placeholder createAndMirror substitutes in its mirror key templates.
IdToken == ":id"

\* Ids the backend assigns, in the order it hands them out.
AutoIds == <<"d1", "d2", "d3", "d4", "d5", "d6", "d7", "d8">>

Users == <<"users">>
U1 == <<"users", "u1">>
U2 == <<"users", "u2">>
M1 == <<"index", "u1">>
M2 == <<"index", "k9">>
T1 == <<"index", ":id">>
T2 == <<"owners", ":id", "docs", ":id">>

Consumers == {"c1", "c2"}

DocA == [name |-> "A"]
DocB == [name |-> "B", tag |-> "t"]
\* A caller's object that already carries an id: that of the document at users/u1.
DocC == [name |-> "C", id |-> "u1"]
PatchX == [x |-> "1"]
\* Partial data naming a field the document has, and an id.
PatchN == [name |-> "N", id |-> "k9"]

\* Documents of the users collection besides users/u1 and users/u2.
K9 == <<"users", "k9">>
D7 == <<"users", "d7">>

\* The strings of the model (field values, document ids, document paths written with
\* slashes) in the backend's string order, which is byte order.
StringOrder ==
    <<"1", "A", "B", "C", "N", "d1", "d2", "d3", "d4", "d5", "d6", "d7", "d8", "k9", "t",
      "u1", "u2", "users/u1", "users/u2">>

\* CollectionParams: each optional member is <<>> when absent and <<v>> when present.
NoParams == [order |-> <<>>, limit |-> <<>>, startAfter |-> <<>>]

Orders == {[field |-> "name", direction |-> d] : d \in {"asc", "desc"}}

\* startAfter : string -- a value of the order field, a document path.
StartAfters == {"B", "users/u1"}

ParamsSet ==
    [order : {<<>>} \cup {<<o>> : o \in Orders},
     limit : {<<>>} \cup {<<n>> : n \in 0..MaxLimit},
     startAfter : {<<>>} \cup {<<v>> : v \in StartAfters}]

\* where(fieldName, operator, value)
Filters ==
    {[field |-> "name", op |-> "==", value |-> "A"], [field |-> "name", op |-> ">", value |-> "A"],
     [field |-> "tag", op |-> "==", value |-> "t"]}

TemplateLists == {<<>>, <<T1>>, <<T1, T2>>}
MirrorLists == {<<M1>>, <<M1, M2>>}
UpdateLists == {<<U1>>, <<U1, M1>>, <<U1, U2, M1>>}

\* ----------------------------------------------------------------- helpers

Last(s) == s[Len(s)]

\* `${collectionPath}/${record.id}`
DocPath(c, id) == Append(c, id)

\* data.id = docRef.id, on the caller's object
AssignId_keep(d, id) ==
    IF "id" \in DOMAIN d THEN d
    ELSE [f \in DOMAIN d \cup {"id"} |-> IF f = "id" THEN id ELSE d[f]]

AssignId(d, id) == [f \in DOMAIN d \cup {"id"} |-> IF f = "id" THEN id ELSE d[f]]

\* key.replace(/:id/g, record.id): every occurrence of the token
ReplaceId(key, id) == [i \in 1..Len(key) |-> IF key[i] = IdToken THEN id ELSE key[i]]

\* mirrorKeys.map(key => key.replace(/:id/g, record.id))
ReplaceAll(keys, id) == [i \in 1..Len(keys) |-> ReplaceId(keys[i], id)]

\* ----------------------------------------------------------------- backend

\* snapshot.data() of the document at p
SnapData(s, p) == IF p \in DOMAIN s THEN s[p] ELSE Undefined

\* ref.set(data): full overwrite, creating the document when there is none
Put_merged(s, p, d) ==
    [q \in DOMAIN s \cup {p} |->
        IF q # p THEN s[q]
        ELSE IF p \notin DOMAIN s THEN d
        ELSE [f \in DOMAIN s[p] \cup DOMAIN d |-> IF f \in DOMAIN d THEN d[f] ELSE s[p][f]]]

Put(s, p, d) == [q \in DOMAIN s \cup {p} |-> IF q = p THEN d ELSE s[q]]

\* ref.set(data, {merge: true})
PutMerge_overwrite(s, p, d) == Put(s, p, d)

PutMerge(s, p, d) ==
    Put(s, p, IF p \in DOMAIN s
              THEN [f \in DOMAIN s[p] \cup DOMAIN d |-> IF f \in DOMAIN d THEN d[f] ELSE s[p][f]]
              ELSE d)

\* ref.delete()
Remove(s, p) == [q \in DOMAIN s \ {p} |-> s[q]]

\* One write on the store: set, update (the fields of the data replace the document's) or
\* delete.
Write(s, w) ==
    IF w.kind = "delete" THEN Remove(s, w.path)
    ELSE IF w.kind = "update" THEN PutMerge(s, w.path, w.data)
    ELSE Put(s, w.path, w.data)

\* The staged writes of a transaction, applied in staging order.
RECURSIVE ApplyWrites(_, _)
ApplyWrites_first(s, ws) == IF ws = <<>> THEN s ELSE Write(s, Head(ws))

ApplyWrites(s, ws) ==
    IF ws = <<>> THEN s
    ELSE ApplyWrites(Write(s, Head(ws)), Tail(ws))

\* txn.update requires its document to exist when the transaction commits.
RECURSIVE Committable(_, _)
Committable_always(s, ws) == TRUE

Committable(s, ws) ==
    IF ws = <<>> THEN TRUE
    ELSE /\ Head(ws).kind = "update" => Head(ws).path \in DOMAIN s
         /\ Committable(Write(s, Head(ws)), Tail(ws))

\* The error object of a failed backend request; serial is its identity.
BackendError(n) == [name |-> "FirebaseError", code |-> "permission-denied", serial |-> n]

\* new Error(`No such object ${primaryKey}`)
NoSuchObject(key) == [name |-> "Error", message |-> <<"No such object", key>>]

\* What printError (and each catch block's console.error) writes: the operation the
\* message names, the path or paths it names, and the error it prints.
Diagnostic(operation, path, e) == [operation |-> operation, path |-> path, error |-> e]


\* Promise.all over the requests of a fan-out: rejects at the first failure,
\* resolves once every request has succeeded.
PromiseAll_any(rs) ==
    IF \E i \in DOMAIN rs : rs[i].state = "failed" THEN "rejected"
    ELSE IF rs = <<>> \/ \E i \in DOMAIN rs : rs[i].state = "ok" THEN "resolved"
    ELSE "pending"

PromiseAll(rs) ==
    IF \E i \in DOMAIN rs : rs[i].state = "failed" THEN "rejected"
    ELSE IF \A i \in DOMAIN rs : rs[i].state = "ok" THEN "resolved"
    ELSE "pending"

\* this.txn.get(docRef): the document joins the reads the commit validates
TxnGet_untracked(reads, p) == reads

TxnGet(reads, p) == reads \cup {p}

\* FbDataStore.read: the snapshot's data with id set from the reference, or undefined
Read_noId(s, p) == SnapData(s, p)

Read(s, p) ==
    LET t == SnapData(s, p)
    IN  IF t = Undefined THEN t ELSE AssignId(t, Last(p))

\* if (!data) throw new Error(`No such object ${primaryKey}`)
NoData_never(d) == FALSE

NoData(d) == d = Undefined

\* ------------------------------------------------------------------- state

VARIABLES
    store,      \* the backend: document path -> stored data, for the paths that hold a document
    nextAuto,   \* auto ids handed out so far
    errCount,   \* error objects raised so far
    extCount,   \* writes by other clients so far
    call,       \* the facade call in progress: its arguments, locals, position and outcome
    txn,        \* the backend transaction of the call: documents read, writes staged
    reqs,       \* the backend requests of the call's fan-out, in issue order
    hist,       \* history: calls started, the store and input when the call started, and the
                \* operations a composite operation has issued on its transaction handle,
                \* whether the call's transaction has committed
    rx,         \* one feed (the observable lazyConnection returns): the published subject's
                \* observers, the reference count, the connection and its inner subject
    lsn,        \* the backend's side of the feed: listeners registered, notifications in flight
    cons,       \* the consumers: who is subscribed, who holds a subscription that is closed,
                \* and the events each has received
    console,    \* the diagnostics written to the console, in order
    queries     \* the Query objects query() and where() have returned, in creation order

storeVars == <<store, nextAuto, errCount, extCount, call, txn, reqs, hist, console, queries>>

feedVars == <<rx, lsn, cons>>

vars == <<store, nextAuto, errCount, extCount, call, txn, reqs, hist, rx, lsn, cons, console,
         queries>>

NoCall ==
    [op |-> "none", pc |-> "idle", col |-> <<>>, key |-> <<>>, keys |-> <<>>, mkeys |-> <<>>,
     given |-> FALSE, data |-> Undefined, mdata |-> Undefined, attempts |-> 0,
     prog |-> <<>>, ip |-> 0, params |-> NoParams, binding |-> "browser", query |-> 0,
     outcome |-> "none", value |-> Undefined, error |-> NoError]

NoTxn == [open |-> FALSE, reads |-> {}, stale |-> FALSE, writes |-> <<>>]

OpenTxn == [open |-> TRUE, reads |-> {}, stale |-> FALSE, writes |-> <<>>]

\* The backend's side of a feed nobody has subscribed to.  handler: whether the feed's
\* listener has an error callback (the browser binding's watch and watchAll have one; its
\* watchForChanges and the server binding's feeds have none).  fired is history: the
\* notifications that reached the callback of the connected listener, each with the
\* consumers subscribed at that moment; unsubCalls is history too: the registration whose
\* deregistration function each call of stop() invoked (0: none had been stored).
NoListeners(h) ==
    [handler |-> h, listeners |-> {}, dead |-> {}, registrations |-> 0, stops |-> 0,
     changes |-> 0, notifs |-> <<>>, fired |-> <<>>, unsubCalls |-> <<>>]

Init ==
    /\ store = (U1 :> DocA)
    /\ nextAuto = 0
    /\ errCount = 0
    /\ extCount = 0
    /\ call = NoCall
    /\ txn = NoTxn
    /\ reqs = <<>>
    /\ hist = [calls |-> 0, store0 |-> (U1 :> DocA), input |-> Undefined, mirrorFailed |-> FALSE,
               issued |-> <<>>, committed |-> FALSE]
    /\ rx = [observers |-> {}, stopped |-> FALSE, refCount |-> 0, conn |-> 0, attached |-> {},
             unsub |-> 0]
    /\ lsn = NoListeners(TRUE)
    /\ console = <<>>
    /\ queries = <<>>
    /\ cons = [want |-> {}, subs |-> 0, firstSubs |-> 0,
               got |-> [c \in Consumers |-> <<>>], atUnsub |-> [c \in Consumers |-> 0],
               closed |-> {}, again |-> 0]

\* A new facade call starts once the previous one has returned and its requests have settled.
CanStart ==
    /\ call.outcome # "pending"
    /\ hist.calls < MaxCalls
    /\ \A i \in DOMAIN reqs : reqs[i].state # "inflight"

Started(d) ==
    [calls |-> hist.calls + 1, store0 |-> store, input |-> d, mirrorFailed |-> FALSE,
     issued |-> <<>>, committed |-> FALSE]

Reject(c, e) == [c EXCEPT !.outcome = "rejected", !.error = e, !.pc = "done"]

Resolve(c, v) == [c EXCEPT !.outcome = "resolved", !.value = v, !.pc = "done"]

\* catch (e) { console.error(...); ...; throw e; } around the awaited Promise.all: the
\* diagnostics are printed and the call rejects with the error it caught.
Caught_swallowed(c, e) == Resolve(c, Undefined)

Caught(c, e) == Reject(c, e)

\* What the call returns once its fan-out has resolved.
ReturnValue(c) == IF c.op = "createAndMirror" THEN c.data ELSE Undefined

\* Promise.all(refs.map(ref => ref.set(data))) / Promise.all(paths.map(path => this.update(path, data))):
\* every request is issued before the first await.
FanOut_stray(paths, d, kind) ==
    [i \in 1..(Len(paths) + 1) |->
        [path |-> IF i <= Len(paths) THEN paths[i] ELSE U2, data |-> d, kind |-> kind,
         state |-> "inflight", error |-> NoError]]

FanOut(paths, d, kind) ==
    [i \in 1..Len(paths) |->
        [path |-> paths[i], data |-> d, kind |-> kind, state |-> "inflight", error |-> NoError]]

\* Promise.all(mirrorKeys.map(key => txn.set(key, data))): the writes staged on the transaction
StageMirror(ws, keys, d) ==
    ws \o [i \in 1..Len(keys) |-> [path |-> keys[i], data |-> d, kind |-> "set"]]

\* The store after the backend has dropped a transaction with the staged writes ws: none
\* of them was sent.
Aborted_partly(s, ws) == IF ws = <<>> THEN s ELSE Write(s, ws[1])
Aborted(s, ws) == s

\* Operations on the transaction handle, as the history records them.
HandleGet(key) == <<[op |-> "get", path |-> key]>>
HandleSets(keys) == [i \in 1..Len(keys) |-> [op |-> "set", path |-> keys[i]]]

\* await this.mirrorInTransaction(txn, `${collectionPath}/${record.id}`, keys, record):
\* the data argument the handler of createAndMirror passes.
MirrorArgument_none(record) == Undefined
MirrorArgument(record) == record


\* ------------------------------------------------- createAndMirror (1): transaction

\* createAndMirror(collectionPath, data, mirrorKeys): this.transact(...) asks the backend
\* for a transaction.
CallCreateAndMirror(c, d, ks) ==
    /\ CanStart
    /\ call' = [NoCall EXCEPT !.op = "createAndMirror", !.pc = "cam_handler", !.col = c,
                              !.keys = ks, !.data = d, !.outcome = "pending"]
    /\ txn' = OpenTxn
    /\ reqs' = <<>>
    /\ hist' = Started(d)
    /\ UNCHANGED <<store, nextAuto, errCount, extCount, queries, rx, lsn, cons, console>>

\* The transaction handler of createAndMirror: txn.create reserves a document reference,
\* stages the create and sets data.id; mirrorInTransaction, given the record, stages one
\* set per mirror key.  f = 0: nothing throws; f = 1: the staged create throws;
\* f = k + 1: the staged write of mirror key k throws.  A throw rejects the handler,
\* the backend drops the transaction and createAndMirror rejects.
CamHandler ==
    /\ call.op = "createAndMirror" /\ call.pc = "cam_handler"
    /\ nextAuto < Len(AutoIds)
    /\ \E f \in 0..(Len(call.keys) + 1) :
        LET id == AutoIds[nextAuto + 1]
            record == AssignId(call.data, id)
            created == <<[path |-> DocPath(call.col, id), data |-> call.data, kind |-> "set"]>>
            given == MirrorArgument(record)
        IN  /\ nextAuto' = nextAuto + 1
            /\ IF f = 1
               THEN /\ txn' = NoTxn
                    /\ store' = Aborted(store, created)
                    /\ errCount' = errCount + 1
                    /\ call' = Reject(call, BackendError(errCount + 1))
                    /\ hist' = [hist EXCEPT !.issued = HandleSets(<<DocPath(call.col, id)>>)]
                    /\ console' = console \o
                         <<Diagnostic("datastoreTransaction.create", call.col,
                                      BackendError(errCount + 1)),
                           Diagnostic("creating entry", call.col, BackendError(errCount + 1))>>
               ELSE IF NoData(given)
               THEN \* if (!data) data = await txn.read(primaryKey): a read after the staged
                    \* create, which the backend refuses
                    /\ txn' = NoTxn
                    /\ store' = Aborted(store, created)
                    /\ errCount' = errCount + 1
                    /\ call' = Reject([call EXCEPT !.data = record], BackendError(errCount + 1))
                    /\ hist' = [hist EXCEPT !.issued = HandleSets(<<DocPath(call.col, id)>>)
                                                       \o HandleGet(DocPath(call.col, id))]
                    /\ console' = console \o
                         <<Diagnostic("datastoreTransaction.read", DocPath(call.col, id),
                                      BackendError(errCount + 1)),
                           Diagnostic("fetching content for mirroring", DocPath(call.col, id),
                                      BackendError(errCount + 1))>>
               ELSE IF f = 0
               THEN /\ txn' = [txn EXCEPT !.writes =
                                   StageMirror(created, ReplaceAll(call.keys, id), given)]
                    /\ call' = [call EXCEPT !.pc = "commit", !.data = record,
                                            !.key = DocPath(call.col, id)]
                    /\ hist' = [hist EXCEPT !.issued =
                                   HandleSets(<<DocPath(call.col, id)>> \o ReplaceAll(call.keys, id))]
                    /\ UNCHANGED <<store, errCount, console>>
               ELSE /\ txn' = NoTxn
                    /\ store' = Aborted(store, created)
                    /\ errCount' = errCount + 1
                    /\ call' = Reject([call EXCEPT !.data = record], BackendError(errCount + 1))
                    /\ hist' = [hist EXCEPT !.mirrorFailed = TRUE,
                                            !.issued = HandleSets(<<DocPath(call.col, id)>>
                                                                  \o ReplaceAll(call.keys, id))]
                    /\ console' = console \o
                         <<Diagnostic("datastoreTransaction.set",
                                      ReplaceId(call.keys[f - 1], id), BackendError(errCount + 1)),
                           Diagnostic("mirroring content", DocPath(call.col, id),
                                      BackendError(errCount + 1))>>
    /\ UNCHANGED <<reqs, extCount, queries, rx, lsn, cons>>

\* ------------------------------------------------------ transact: the commit

\* What follows a committed transaction: createAndMirror goes on to this.create(...),
\* transact resolves with what its handler returned (nothing, for mirrorInTransaction).
AfterCommit(c) ==
    IF c.op = "createAndMirror" THEN [c EXCEPT !.pc = "cam_create"] ELSE Resolve(c, c.value)

\* The handler runs again from its beginning.
Rerun(c) ==
    IF c.op = "transact"
    THEN [c EXCEPT !.pc = "tx_step", !.ip = 1, !.value = Undefined, !.attempts = c.attempts + 1]
    ELSE [c EXCEPT !.pc = "tm_handler", !.attempts = c.attempts + 1,
                   !.mdata = IF c.given THEN c.mdata ELSE Undefined]

\* runTransaction commits when the handler has resolved: the staged writes are applied
\* together, or (the backend refusing, as it must when an update names a document that does
\* not exist) none is and transact rejects.  A transaction one of whose reads is stale is
\* not committed: the backend runs the handler again, or gives up.
TxnCommit ==
    /\ call.pc = "commit" /\ txn.open
    /\ IF txn.stale
       THEN /\ IF call.attempts + 1 < MaxAttempts
               THEN /\ call' = Rerun(call)
                    /\ txn' = OpenTxn
                    /\ hist' = [hist EXCEPT !.issued = <<>>]
                    /\ UNCHANGED errCount
               ELSE /\ call' = Reject(call, BackendError(errCount + 1))
                    /\ txn' = NoTxn
                    /\ errCount' = errCount + 1
                    /\ UNCHANGED hist
            /\ store' = Aborted(store, txn.writes)
       ELSE \/ /\ Committable(store, txn.writes)
               /\ store' = ApplyWrites(store, txn.writes)
               /\ call' = AfterCommit(call)
               /\ txn' = NoTxn
               /\ hist' = [hist EXCEPT !.committed = TRUE]
               /\ UNCHANGED errCount
            \/ /\ call' = Reject(call, BackendError(errCount + 1))
               /\ txn' = NoTxn
               /\ errCount' = errCount + 1
               /\ hist' = [hist EXCEPT !.mirrorFailed = (Len(txn.writes) > 1)]
               /\ store' = Aborted(store, txn.writes)
    /\ UNCHANGED <<nextAuto, reqs, extCount, queries, rx, lsn, cons, console>>

\* ------------------------------------------- createAndMirror (2): after the transaction

\* record = await this.create(collectionPath, data): colRef.add(data) stores the caller's
\* object as it is now and returns a new reference; data.id is set to its id.  Then
\* this.mirror(`${collectionPath}/${record.id}`, mirrorKeys.map(..., record)) is called:
\* record is map's second argument, so mirror gets no data and reads the primary.
CamCreate ==
    /\ call.op = "createAndMirror" /\ call.pc = "cam_create"
    /\ nextAuto < Len(AutoIds)
    /\ \/ LET id == AutoIds[nextAuto + 1]
          IN  /\ store' = Put(store, DocPath(call.col, id), call.data)
              /\ nextAuto' = nextAuto + 1
              /\ call' = [call EXCEPT !.data = AssignId(call.data, id),
                                      !.key = DocPath(call.col, id),
                                      !.mkeys = ReplaceAll(call.keys, id),
                                      !.given = FALSE, !.mdata = Undefined,
                                      !.pc = "mirror_read"]
              /\ UNCHANGED <<errCount, console>>
       \/ /\ call' = Reject(call, BackendError(errCount + 1))
          /\ errCount' = errCount + 1
          /\ console' = console \o
                <<Diagnostic("datastore.create", call.col, BackendError(errCount + 1)),
                  Diagnostic("creating entry", call.col, BackendError(errCount + 1))>>
          /\ UNCHANGED <<store, nextAuto>>
    /\ UNCHANGED <<txn, reqs, hist, extCount, queries, rx, lsn, cons>>

\* ------------------------------------------------------------------ mirror

\* mirror(primaryKey, mirrorKeys, data?): with data the writes are issued at once,
\* without it the primary is read first.
CallMirror(k, ks, g, d) ==
    /\ CanStart
    /\ LET c == [NoCall EXCEPT !.op = "mirror", !.key = k, !.mkeys = ks, !.keys = ks,
                               !.given = g, !.mdata = IF g THEN d ELSE Undefined,
                               !.outcome = "pending"]
       IN  IF g
           THEN /\ reqs' = FanOut(ks, d, "set")
                /\ call' = [c EXCEPT !.pc = "fan_wait"]
           ELSE /\ reqs' = <<>>
                /\ call' = [c EXCEPT !.pc = "mirror_read"]
    /\ txn' = NoTxn
    /\ hist' = Started(IF g THEN d ELSE Undefined)
    /\ UNCHANGED <<store, nextAuto, errCount, extCount, queries, rx, lsn, cons, console>>

\* data = (await primaryRef.get()).data(); if (!data) throw ...; then the fan-out.
MirrorRead ==
    /\ call.pc = "mirror_read"
    /\ \/ /\ UNCHANGED <<errCount, console>>
          /\ LET d == SnapData(store, call.key)
             IN  IF NoData(d)
                 THEN /\ call' = Reject(call, NoSuchObject(call.key))
                      /\ UNCHANGED reqs
                 ELSE /\ reqs' = FanOut(call.mkeys, d, "set")
                      /\ call' = IF PromiseAll(reqs') = "resolved"
                                 THEN Resolve([call EXCEPT !.mdata = d], ReturnValue(call))
                                 ELSE [call EXCEPT !.mdata = d, !.pc = "fan_wait"]
       \/ /\ call' = Reject(call, BackendError(errCount + 1))
          /\ errCount' = errCount + 1
          /\ console' = Append(console, Diagnostic("fetching content for mirroring", call.key,
                                                   BackendError(errCount + 1)))
          /\ UNCHANGED reqs
    /\ UNCHANGED <<store, nextAuto, txn, hist, extCount, queries, rx, lsn, cons>>

\* -------------------------------------------------------------- multiUpdate

\* multiUpdate(docPaths, data): Promise.all(docPaths.map(path => this.update(path, data)))
CallMultiUpdate(ps, d) ==
    /\ CanStart
    /\ call' = [NoCall EXCEPT !.op = "multiUpdate", !.keys = ps, !.data = d,
                              !.pc = "fan_wait", !.outcome = "pending"]
    /\ reqs' = FanOut(ps, d, "update")
    /\ txn' = NoTxn
    /\ hist' = Started(d)
    /\ UNCHANGED <<store, nextAuto, errCount, extCount, queries, rx, lsn, cons, console>>

\* One request of the fan-out settles: the backend applies the write, or refuses it.
\* The aggregate promise settles the call at the first failure or at the last success;
\* requests of a call that has already rejected go on settling.
Settle(i) ==
    /\ i \in DOMAIN reqs /\ reqs[i].state = "inflight"
    /\ \E ok \in BOOLEAN :
        /\ reqs' = [reqs EXCEPT ![i].state = IF ok THEN "ok" ELSE "failed",
                                ![i].error = IF ok THEN NoError ELSE BackendError(errCount + 1)]
        /\ store' = IF ~ok THEN store
                    ELSE IF reqs[i].kind = "update"
                         THEN PutMerge(store, reqs[i].path, reqs[i].data)
                         ELSE Put(store, reqs[i].path, reqs[i].data)
        /\ errCount' = IF ok THEN errCount ELSE errCount + 1
        /\ call' = IF call.outcome # "pending" THEN call
                   ELSE IF PromiseAll(reqs') = "rejected"
                        THEN Caught(call, BackendError(errCount + 1))
                   ELSE IF PromiseAll(reqs') = "resolved"
                        THEN Resolve(call, ReturnValue(call))
                   ELSE call
        /\ hist' = IF ~ok /\ call.op \in {"createAndMirror", "mirror"}
                   THEN [hist EXCEPT !.mirrorFailed = TRUE] ELSE hist
        /\ console' = console
              \o (IF ~ok /\ reqs[i].kind = "update"
                  THEN <<Diagnostic("datastore.update", reqs[i].path, BackendError(errCount + 1))>>
                  ELSE <<>>)
              \o (IF ~ok /\ call.outcome = "pending"
                  THEN IF call.op = "multiUpdate"
                       THEN <<Diagnostic("multi-update", call.keys, BackendError(errCount + 1))>>
                       ELSE <<Diagnostic("mirroring content", call.key, BackendError(errCount + 1))>>
                  ELSE <<>>)
    /\ UNCHANGED <<nextAuto, txn, extCount, queries, rx, lsn, cons>>


\* ------------------------------------------ transact(mirrorInTransaction)

\* transact(txn => this.mirrorInTransaction(txn, primaryKey, mirrorKeys, data?))
CallTransactMirror(k, ks, g, d) ==
    /\ CanStart
    /\ call' = [NoCall EXCEPT !.op = "transactMirror", !.pc = "tm_handler", !.key = k,
                              !.keys = ks, !.mkeys = ks, !.given = g,
                              !.mdata = IF g THEN d ELSE Undefined, !.outcome = "pending"]
    /\ txn' = OpenTxn
    /\ reqs' = <<>>
    /\ hist' = Started(IF g THEN d ELSE Undefined)
    /\ UNCHANGED <<store, nextAuto, errCount, extCount, queries, rx, lsn, cons, console>>

\* The staging half of mirrorInTransaction, on data d: one txn.set per mirror key;
\* a set that throws rejects the handler and the backend drops the transaction.
StageOrAbort(d) ==
    /\ hist' = [hist EXCEPT !.issued = hist.issued \o HandleSets(call.mkeys)]
    /\ \/ /\ txn' = [txn EXCEPT !.writes = StageMirror(txn.writes, call.mkeys, d)]
          /\ call' = [call EXCEPT !.mdata = d, !.pc = "commit"]
          /\ UNCHANGED <<errCount, console>>
       \/ /\ call.mkeys # <<>>
          /\ txn' = NoTxn
          /\ call' = Reject([call EXCEPT !.mdata = d], BackendError(errCount + 1))
          /\ errCount' = errCount + 1
          /\ \E i \in DOMAIN call.mkeys :
               console' = console \o
                   <<Diagnostic("datastoreTransaction.set", call.mkeys[i],
                                BackendError(errCount + 1)),
                     Diagnostic("mirroring content", call.key, BackendError(errCount + 1))>>

\* The handler starts: with data the writes are staged at once, without it
\* txn.read(primaryKey) is issued.
TmHandler ==
    /\ call.op = "transactMirror" /\ call.pc = "tm_handler" /\ txn.open
    /\ IF call.given
       THEN StageOrAbort(call.mdata)
       ELSE /\ call' = [call EXCEPT !.pc = "tm_read"]
            /\ UNCHANGED <<txn, errCount, console, hist>>
    /\ UNCHANGED <<store, nextAuto, reqs, extCount, queries, rx, lsn, cons>>

\* data = await txn.read(primaryKey): the transaction's read of the primary, which the
\* commit validates; if (!data) throw ...; then the staging.
TmRead ==
    /\ call.op = "transactMirror" /\ call.pc = "tm_read" /\ txn.open
    /\ \/ LET d == SnapData(store, call.key)
          IN  IF NoData(d)
              THEN /\ call' = Reject(call, NoSuchObject(call.key))
                   /\ txn' = NoTxn
                   /\ hist' = [hist EXCEPT !.issued = hist.issued \o HandleGet(call.key)]
                   /\ UNCHANGED <<errCount, console>>
              ELSE /\ hist' = [hist EXCEPT !.issued = hist.issued \o HandleGet(call.key)
                                                         \o HandleSets(call.mkeys)]
                   /\ \/ /\ txn' = [txn EXCEPT !.reads = TxnGet(txn.reads, call.key),
                                               !.writes = StageMirror(txn.writes, call.mkeys, d)]
                         /\ call' = [call EXCEPT !.mdata = d, !.pc = "commit"]
                         /\ UNCHANGED <<errCount, console>>
                      \/ /\ call.mkeys # <<>>
                         /\ txn' = NoTxn
                         /\ call' = Reject([call EXCEPT !.mdata = d], BackendError(errCount + 1))
                         /\ errCount' = errCount + 1
                         /\ \E i \in DOMAIN call.mkeys :
                              console' = console \o
                                  <<Diagnostic("datastoreTransaction.set", call.mkeys[i],
                                               BackendError(errCount + 1)),
                                    Diagnostic("mirroring content", call.key,
                                               BackendError(errCount + 1))>>
       \/ /\ call' = Reject(call, BackendError(errCount + 1))
          /\ txn' = NoTxn
          /\ errCount' = errCount + 1
          /\ hist' = [hist EXCEPT !.issued = hist.issued \o HandleGet(call.key)]
          /\ console' = console \o
                <<Diagnostic("datastoreTransaction.read", call.key, BackendError(errCount + 1)),
                  Diagnostic("fetching content for mirroring", call.key,
                             BackendError(errCount + 1))>>
    /\ UNCHANGED <<store, nextAuto, reqs, extCount, queries, rx, lsn, cons>>

\* ------------------------------------------------------------ facade CRUD
\*
\* A facade operation on one document or collection is one backend request; the backend
\* performs it at one instant, which is the step of the action, and the code after the
\* await (the catch block, the id assignment) belongs to the same action.

\* The ids documents can have, in the backend's document order.
IdOrder == <<"d1", "d2", "d3", "d4", "d5", "d6", "d7", "d8", "k9", "u1", "u2">>

Rank(id) == CHOOSE i \in DOMAIN IdOrder : IdOrder[i] = id

\* snapshot.docs of a collection: the paths of its documents, in document order
RECURSIVE Sorted(_)
Sorted(ps) ==
    IF ps = {} THEN <<>>
    ELSE LET p == CHOOSE x \in ps : \A y \in ps : Rank(Last(x)) <= Rank(Last(y))
         IN  <<p>> \o Sorted(ps \ {p})

Docs(s, c) == Sorted({p \in DOMAIN s : Len(p) = Len(c) + 1 /\ SubSeq(p, 1, Len(c)) = c})

StringRank(v) == CHOOSE i \in DOMAIN StringOrder : StringOrder[i] = v

\* The segments of a path written with slashes.
Segments(str) ==
    IF str = "users/u1" THEN U1 ELSE IF str = "users/u2" THEN U2 ELSE <<str>>

\* this.firestore.collection(collectionPath): the query for all documents of a collection.
CollectionQuery(c) ==
    [collection |-> c, filters |-> <<>>, orderBy |-> <<>>, limit |-> <<>>, startAfter |-> <<>>]

\* A cursor value as the backend receives it.
StringValue(v) == [type |-> "string", value |-> v]
ReferenceValue(p) == [type |-> "reference", path |-> p]

\* if (params?.limit): the browser binding's listAll, and watchAll and watchForChanges
\* of both bindings, pass on a limit that is truthy.
LimitGiven(params) == params.limit # <<>> /\ params.limit[1] # 0

\* if (params?.limit !== undefined && params?.limit !== null): the server binding's listAll
ServerLimitGiven(params) == params.limit # <<>>

\* collection.startAfter(params?.startAfter): the browser binding passes the string on
Cursor(v) == StringValue(v)

\* collectionRef.startAfter(this.firestore.doc(params?.startAfter)): the server binding
\* passes a document reference
ServerCursor(v) == ReferenceValue(Segments(v))

\* The query listAll builds from its params in the browser binding.
ListAllQuery(c, params) ==
    LET q0 == CollectionQuery(c)
        q1 == IF params.order # <<>> THEN [q0 EXCEPT !.orderBy = params.order] ELSE q0
        q2 == IF LimitGiven(params) THEN [q1 EXCEPT !.limit = params.limit] ELSE q1
    IN  IF params.startAfter # <<>> /\ params.startAfter[1] # ""
        THEN [q2 EXCEPT !.startAfter = <<Cursor(params.startAfter[1])>>]
        ELSE q2

\* The query listAll builds from its params in the server binding.
ServerListAllQuery(c, params) ==
    LET q0 == CollectionQuery(c)
        q1 == IF params.order # <<>> THEN [q0 EXCEPT !.orderBy = params.order] ELSE q0
        q2 == IF ServerLimitGiven(params) THEN [q1 EXCEPT !.limit = params.limit] ELSE q1
    IN  IF params.startAfter # <<>> /\ params.startAfter[1] # ""
        THEN [q2 EXCEPT !.startAfter = <<ServerCursor(params.startAfter[1])>>]
        ELSE q2

\* query.startAfter(value) throws when the query has fewer orderBy clauses than the
\* cursor has values.
BuilderThrows(q) == q.startAfter # <<>> /\ q.orderBy = <<>>

\* this.firestore.doc(path) refuses a path that does not name a document.
DocThrows(params) ==
    /\ params.startAfter # <<>> /\ params.startAfter[1] # ""
    /\ Len(Segments(params.startAfter[1])) % 2 = 1

\* query.where(fieldName, operator, value): whether a document satisfies the predicate.
Matches(d, f) ==
    /\ f.field \in DOMAIN d
    /\ IF f.op = "==" THEN d[f.field] = f.value
       ELSE StringRank(d[f.field]) > StringRank(f.value)

\* Whether document x comes before document y in the order of query q: by the orderBy
\* field in its direction, documents with equal values by id in the same direction; with
\* no orderBy, by id.
Precedes(s, q, x, y) ==
    LET byId == Rank(Last(x)) < Rank(Last(y))
    IN  IF q.orderBy = <<>> THEN byId
        ELSE LET kx == StringRank(s[x][q.orderBy[1].field])
                 ky == StringRank(s[y][q.orderBy[1].field])
             IN  IF q.orderBy[1].direction = "asc"
                 THEN kx < ky \/ (kx = ky /\ byId)
                 ELSE ky < kx \/ (kx = ky /\ Rank(Last(y)) < Rank(Last(x)))

\* Whether document x comes after the cursor of query q.  The backend compares the cursor
\* with the orderBy field as values: strings in string order, and a field that is a string
\* before every document reference.
AfterCursor(s, q, x) ==
    LET cur == q.startAfter[1]
    IN  IF cur.type = "string"
        THEN IF q.orderBy[1].direction = "asc"
             THEN StringRank(s[x][q.orderBy[1].field]) > StringRank(cur.value)
             ELSE StringRank(s[x][q.orderBy[1].field]) < StringRank(cur.value)
        ELSE q.orderBy[1].direction = "desc"

RECURSIVE OrderedBy(_, _, _)
OrderedBy(s, q, ps) ==
    IF ps = {} THEN <<>>
    ELSE LET p == CHOOSE x \in ps : \A y \in ps \ {x} : Precedes(s, q, x, y)
         IN  <<p>> \o OrderedBy(s, q, ps \ {p})

Take(seq, n) == SubSeq(seq, 1, IF n < Len(seq) THEN n ELSE Len(seq))

\* query.get(): snapshot.docs -- the documents of the collection that satisfy every
\* predicate and have the orderBy field and come after the cursor, in the query's order,
\* up to the limit.
RunQuery(s, q) ==
    LET all == {p \in DOMAIN s : Len(p) = Len(q.collection) + 1
                                 /\ SubSeq(p, 1, Len(q.collection)) = q.collection}
        sel == {p \in all :
                  /\ \A i \in DOMAIN q.filters : Matches(s[p], q.filters[i])
                  /\ q.orderBy # <<>> => q.orderBy[1].field \in DOMAIN s[p]
                  /\ q.startAfter # <<>> => AfterCursor(s, q, p)}
        seq == OrderedBy(s, q, sel)
    IN  IF q.limit = <<>> THEN seq ELSE Take(seq, q.limit[1])

\* listAll: snap.docs.map(x => Object.assign({}, x.data(), { id: x.id }))
ListAllResult(s, q) ==
    [docs |-> [i \in 1..Len(RunQuery(s, q)) |-> AssignId(s[RunQuery(s, q)[i]], Last(RunQuery(s, q)[i]))]]

\* FbQuery.get: snapshot.docs.map(x => x.data())
QueryResult(s, q) == [docs |-> [i \in 1..Len(RunQuery(s, q)) |-> s[RunQuery(s, q)[i]]]]

\* FbTransaction.read: (await this.txn.get(...))?.data()
TxnReadResult(s, p) == SnapData(s, p)

\* FbTransaction.readAll: the snapshots' data, index-aligned with docPaths
TxnReadAllResult(s, ps) == [docs |-> [i \in 1..Len(ps) |-> SnapData(s, ps[i])]]

\* catch (e) { handleError(e, operationName, data); }: the diagnostic is printed and the
\* error caught is thrown again.
HandleError(c, operationName, path) ==
    /\ call' = Reject(c, BackendError(errCount + 1))
    /\ errCount' = errCount + 1
    /\ console' = Append(console, Diagnostic(operationName, path, BackendError(errCount + 1)))

\* A backend failure in code with no catch block: the caller gets the error, nothing is printed.
Uncaught(c) ==
    /\ call' = Reject(c, BackendError(errCount + 1))
    /\ errCount' = errCount + 1
    /\ UNCHANGED console

\* create(collectionPath, data): colRef.add(data) stores the caller's object as it is under
\* a new id; then data.id = docRef.id.
Create(c, d) ==
    /\ CanStart /\ nextAuto < Len(AutoIds)
    /\ LET id == AutoIds[nextAuto + 1]
           c0 == [NoCall EXCEPT !.op = "create", !.col = c, !.data = d]
       IN  \/ /\ store' = Put(store, DocPath(c, id), d)
              /\ nextAuto' = nextAuto + 1
              /\ call' = Resolve([c0 EXCEPT !.data = AssignId(d, id), !.key = DocPath(c, id)],
                                 AssignId(d, id))
              /\ UNCHANGED <<errCount, console>>
           \/ /\ HandleError(c0, "datastore.create", c)
              /\ UNCHANGED <<store, nextAuto>>
    /\ hist' = Started(d) /\ txn' = NoTxn /\ reqs' = <<>>
    /\ UNCHANGED <<extCount, queries, rx, lsn, cons>>

\* read(docPath)
FacadeRead(p) ==
    /\ CanStart
    /\ LET c0 == [NoCall EXCEPT !.op = "read", !.key = p]
       IN  \/ /\ call' = Resolve(c0, Read(store, p))
              /\ UNCHANGED <<errCount, console>>
           \/ HandleError(c0, "datastore.read", p)
    /\ hist' = Started(Undefined) /\ txn' = NoTxn /\ reqs' = <<>>
    /\ UNCHANGED <<store, nextAuto, extCount, queries, rx, lsn, cons>>

\* set(docPath, data)
FacadeSet(p, d) ==
    /\ CanStart
    /\ LET c0 == [NoCall EXCEPT !.op = "set", !.key = p, !.data = d]
       IN  \/ /\ store' = Put(store, p, d)
              /\ call' = Resolve(c0, Undefined)
              /\ UNCHANGED <<errCount, console>>
           \/ /\ HandleError(c0, "datastore.set", p)
              /\ UNCHANGED store
    /\ hist' = Started(d) /\ txn' = NoTxn /\ reqs' = <<>>
    /\ UNCHANGED <<nextAuto, extCount, queries, rx, lsn, cons>>

\* update(docPath, data): docRef.set(data, { merge: true })
Update(p, d) ==
    /\ CanStart
    /\ LET c0 == [NoCall EXCEPT !.op = "update", !.key = p, !.data = d]
       IN  \/ /\ store' = PutMerge(store, p, d)
              /\ call' = Resolve(c0, Undefined)
              /\ UNCHANGED <<errCount, console>>
           \/ /\ HandleError(c0, "datastore.update", p)
              /\ UNCHANGED store
    /\ hist' = Started(d) /\ txn' = NoTxn /\ reqs' = <<>>
    /\ UNCHANGED <<nextAuto, extCount, queries, rx, lsn, cons>>

\* delete(docPath)
Delete(p) ==
    /\ CanStart
    /\ LET c0 == [NoCall EXCEPT !.op = "delete", !.key = p]
       IN  \/ /\ store' = Remove(store, p)
              /\ call' = Resolve(c0, Undefined)
              /\ UNCHANGED <<errCount, console>>
           \/ /\ HandleError(c0, "datastore.delete", p)
              /\ UNCHANGED store
    /\ hist' = Started(Undefined) /\ txn' = NoTxn /\ reqs' = <<>>
    /\ UNCHANGED <<nextAuto, extCount, queries, rx, lsn, cons>>

\* listAll(collectionPath, params) of the browser binding: the query is built before the
\* try block, so an error the builder throws is not annotated.
ListAll(c, params) ==
    /\ CanStart
    /\ LET c0 == [NoCall EXCEPT !.op = "listAll", !.col = c, !.params = params]
       IN  IF BuilderThrows(ListAllQuery(c, params))
           THEN Uncaught(c0)
           ELSE \/ /\ call' = Resolve(c0, ListAllResult(store, ListAllQuery(c, params)))
                   /\ UNCHANGED <<errCount, console>>
                \/ HandleError(c0, "datastore.listAll", c)
    /\ hist' = Started(Undefined) /\ txn' = NoTxn /\ reqs' = <<>>
    /\ UNCHANGED <<store, nextAuto, extCount, queries, rx, lsn, cons>>

\* listAll(collectionPath, params) of the server binding
ServerListAll(c, params) ==
    /\ CanStart
    /\ LET c0 == [NoCall EXCEPT !.op = "listAll", !.col = c, !.params = params,
                                !.binding = "server"]
       IN  IF DocThrows(params) \/ BuilderThrows(ServerListAllQuery(c, params))
           THEN Uncaught(c0)
           ELSE \/ /\ call' = Resolve(c0, ListAllResult(store, ServerListAllQuery(c, params)))
                   /\ UNCHANGED <<errCount, console>>
                \/ HandleError(c0, "datastore.listAll", c)
    /\ hist' = Started(Undefined) /\ txn' = NoTxn /\ reqs' = <<>>
    /\ UNCHANGED <<store, nextAuto, extCount, queries, rx, lsn, cons>>

\* query(collectionPath).get(): no catch block
QueryGet(c) ==
    /\ CanStart
    /\ LET c0 == [NoCall EXCEPT !.op = "queryGet", !.col = c]
       IN  \/ /\ call' = Resolve(c0, QueryResult(store, CollectionQuery(c)))
              /\ UNCHANGED <<errCount, console>>
           \/ Uncaught(c0)
    /\ hist' = Started(Undefined) /\ txn' = NoTxn /\ reqs' = <<>>
    /\ UNCHANGED <<store, nextAuto, extCount, queries, rx, lsn, cons>>

\* query(collectionPath): a new Query object on the collection
NewQuery(c) ==
    /\ Len(queries) < MaxQueries
    /\ queries' = Append(queries, CollectionQuery(c))
    /\ UNCHANGED <<store, nextAuto, errCount, extCount, call, txn, reqs, hist, rx, lsn, cons,
                   console>>

\* this._query.where(fieldName, operator, value): the backend's query objects are values;
\* where returns another with the predicate added.
AddFilter(q, f) == [q EXCEPT !.filters = Append(@, f)]

\* The Query objects after q.where(...) on object i: a new FbQuery is constructed
WhereObjects_inPlace(qs, i, f) == Append([qs EXCEPT ![i] = AddFilter(qs[i], f)], AddFilter(qs[i], f))
WhereObjects(qs, i, f) == Append(qs, AddFilter(qs[i], f))

\* q.where(fieldName, operator, value) on the Query object i
Where(i, f) ==
    /\ Len(queries) < MaxQueries
    /\ i \in DOMAIN queries
    /\ queries' = WhereObjects(queries, i, f)
    /\ UNCHANGED <<store, nextAuto, errCount, extCount, call, txn, reqs, hist, rx, lsn, cons,
                   console>>

\* q.get() on the Query object i: no catch block
Get(i) ==
    /\ CanStart
    /\ i \in DOMAIN queries
    /\ LET c0 == [NoCall EXCEPT !.op = "get", !.col = queries[i].collection, !.query = i]
       IN  \/ /\ call' = Resolve(c0, QueryResult(store, queries[i]))
              /\ UNCHANGED <<errCount, console>>
           \/ Uncaught(c0)
    /\ hist' = Started(Undefined) /\ txn' = NoTxn /\ reqs' = <<>>
    /\ UNCHANGED <<store, nextAuto, extCount, queries, rx, lsn, cons>>

\* ------------------------------------------------------------ transact(handler)

\* An operation a handler performs on its Transaction Handle.
TxnOp(op, path, d) == [op |-> op, path |-> path, data |-> d]

\* Handlers: each awaits the operations of its sequence in turn and returns what the last
\* create, read or readAll among them returned.
Handlers ==
    { <<TxnOp("create", Users, DocC), TxnOp("set", M1, DocB)>>,
      <<TxnOp("read", U1, Undefined), TxnOp("update", U1, PatchN), TxnOp("delete", U2, Undefined)>>,
      <<TxnOp("readAll", <<U1, U2>>, Undefined), TxnOp("set", M2, DocB), TxnOp("update", U2, PatchX)>>,
      <<TxnOp("set", M1, DocA), TxnOp("read", U1, Undefined)>> }

\* transact(handler): runTransaction gives the handler a transaction.
CallTransact(h) ==
    /\ CanStart
    /\ call' = [NoCall EXCEPT !.op = "transact", !.pc = "tx_step", !.prog = h, !.ip = 1,
                              !.outcome = "pending"]
    /\ txn' = OpenTxn
    /\ reqs' = <<>>
    /\ hist' = Started(Undefined)
    /\ UNCHANGED <<store, nextAuto, errCount, extCount, queries, rx, lsn, cons, console>>

\* The handler is about to perform an operation of kind op.
AtTxnOp(op) ==
    /\ call.op = "transact" /\ call.pc = "tx_step" /\ txn.open
    /\ call.ip \in DOMAIN call.prog
    /\ call.prog[call.ip].op = op

\* The handler goes on after an operation; past its last operation it returns and the
\* transaction is ready to commit.
Advance(c) ==
    [c EXCEPT !.ip = c.ip + 1, !.pc = IF c.ip = Len(c.prog) THEN "commit" ELSE "tx_step"]

\* FbTransaction.create: a new reference is made, the set of the caller's object staged,
\* and data.id assigned.
TxnCreate ==
    /\ AtTxnOp("create") /\ nextAuto < Len(AutoIds)
    /\ LET o == call.prog[call.ip]
           id == AutoIds[nextAuto + 1]
       IN  /\ nextAuto' = nextAuto + 1
           /\ \/ /\ txn' = [txn EXCEPT !.writes = Append(txn.writes,
                               [path |-> DocPath(o.path, id), data |-> o.data, kind |-> "set"])]
                 /\ call' = Advance([call EXCEPT !.value = AssignId(o.data, id),
                                                 !.prog[call.ip].data = AssignId(o.data, id)])
                 /\ UNCHANGED <<errCount, console>>
              \/ /\ HandleError(call, "datastoreTransaction.create", o.path)
                 /\ txn' = NoTxn
    /\ UNCHANGED <<store, reqs, hist, extCount, queries, rx, lsn, cons>>

\* FbTransaction.read: the backend refuses a read that follows a write of the transaction.
TxnRead ==
    /\ AtTxnOp("read")
    /\ LET o == call.prog[call.ip]
       IN  \/ /\ txn.writes = <<>>
              /\ txn' = [txn EXCEPT !.reads = TxnGet(txn.reads, o.path)]
              /\ call' = Advance([call EXCEPT !.value = TxnReadResult(store, o.path)])
              /\ UNCHANGED <<errCount, console>>
           \/ /\ HandleError(call, "datastoreTransaction.read", o.path)
              /\ txn' = NoTxn
    /\ UNCHANGED <<store, nextAuto, reqs, hist, extCount, queries, rx, lsn, cons>>

\* FbTransaction.readAll: no catch block
TxnReadAll ==
    /\ AtTxnOp("readAll")
    /\ LET o == call.prog[call.ip]
       IN  \/ /\ txn.writes = <<>>
              /\ txn' = [txn EXCEPT !.reads = txn.reads \cup {o.path[i] : i \in DOMAIN o.path}]
              /\ call' = Advance([call EXCEPT !.value = TxnReadAllResult(store, o.path)])
              /\ UNCHANGED <<errCount, console>>
           \/ /\ Uncaught(call)
              /\ txn' = NoTxn
    /\ UNCHANGED <<store, nextAuto, reqs, hist, extCount, queries, rx, lsn, cons>>

\* What a write operation of the handle does: the write is staged, or the staging throws.
StageWrite(o, operationName) ==
    \/ /\ txn' = [txn EXCEPT !.writes = Append(txn.writes,
                        [path |-> o.path, data |-> o.data, kind |-> o.op])]
       /\ call' = Advance(call)
       /\ UNCHANGED <<errCount, console>>
    \/ /\ HandleError(call, operationName, o.path)
       /\ txn' = NoTxn

\* FbTransaction.update
TxnUpdate ==
    /\ AtTxnOp("update")
    /\ StageWrite(call.prog[call.ip], "datastoreTransaction.update")
    /\ UNCHANGED <<store, nextAuto, reqs, hist, extCount, queries, rx, lsn, cons>>

\* FbTransaction.set
TxnSet ==
    /\ AtTxnOp("set")
    /\ StageWrite(call.prog[call.ip], "datastoreTransaction.set")
    /\ UNCHANGED <<store, nextAuto, reqs, hist, extCount, queries, rx, lsn, cons>>

\* FbTransaction.delete
TxnDelete ==
    /\ AtTxnOp("delete")
    /\ StageWrite(call.prog[call.ip], "datastoreTransaction.delete")
    /\ UNCHANGED <<store, nextAuto, reqs, hist, extCount, queries, rx, lsn, cons>>

\* ------------------------------------------------------ other clients

\* Another client of the same backend sets or deletes a document.  A write to a
\* document an open transaction has read makes that read stale.
ExtWrite(p, d) ==
    /\ extCount < MaxExt
    /\ extCount' = extCount + 1
    /\ store' = IF d = Undefined THEN [q \in DOMAIN store \ {p} |-> store[q]] ELSE Put(store, p, d)
    /\ store' # store
    /\ txn' = IF txn.open /\ p \in txn.reads THEN [txn EXCEPT !.stale = TRUE] ELSE txn
    /\ UNCHANGED <<nextAuto, errCount, call, reqs, hist, rx, lsn, cons, console, queries>>

\* ------------------------------------------------------- lazyConnection

\* refCount(): the source is connected when a subscriber arrives and there is no connection
NeedsConnect_always(r) == TRUE

NeedsConnect(r) == r.conn = 0

\* Unsubscribing a consumer removes its subscriber from the published subject's observers
RemoveObserver_kept(obs, c) == obs

RemoveObserver(obs, c) == obs \ {c}

\* The teardown the Observable's subscribe function returns, run when the connection is
\* unsubscribed: the inner subject's subscription ends and options.stop() calls unsub(),
\* the deregistration function the last start() stored.
Teardown(r) == [r EXCEPT !.conn = 0, !.refCount = 0, !.attached = r.attached \ {r.conn}]

Stop_skipped(l, r) == l

Stop(l, r) ==
    [l EXCEPT !.listeners = l.listeners \ {r.unsub}, !.stops = l.stops + 1,
              !.unsubCalls = Append(l.unsubCalls, r.unsub)]

\* A consumer subscribes to the feed.  On a feed that an error has terminated the
\* published subject hands the error it keeps (that of the last listener registered) to
\* the subscriber at once and nothing is connected.
\* Otherwise the subscriber joins the subject's observers and, if there is no connection,
\* the source is subscribed: a new inner subject, subscribed to the connection's observer,
\* and options.start(subject), which registers a backend listener and keeps its unsub.
Subscribe(c) ==
    /\ c \notin cons.want /\ cons.subs < MaxSubs
    /\ IF rx.stopped
       THEN /\ cons' = [cons EXCEPT !.subs = cons.subs + 1,
                                    !.closed = cons.closed \cup {c},
                                    !.got[c] = Append(cons.got[c], <<"error", rx.unsub>>),
                                    !.atUnsub[c] = Len(cons.got[c]) + 1]
            /\ UNCHANGED <<rx, lsn>>
       ELSE /\ cons' = [cons EXCEPT !.subs = cons.subs + 1, !.want = cons.want \cup {c},
                                    !.firstSubs = IF cons.want = {} THEN cons.firstSubs + 1
                                                  ELSE cons.firstSubs]
            /\ IF NeedsConnect(rx)
               THEN LET k == lsn.registrations + 1
                    IN  /\ rx' = [rx EXCEPT !.observers = rx.observers \cup {c},
                                            !.refCount = rx.refCount + 1,
                                            !.conn = k, !.attached = rx.attached \cup {k},
                                            !.unsub = k]
                        /\ lsn' = [lsn EXCEPT !.listeners = lsn.listeners \cup {k},
                                              !.registrations = k]
               ELSE /\ rx' = [rx EXCEPT !.observers = rx.observers \cup {c},
                                        !.refCount = rx.refCount + 1]
                    /\ UNCHANGED lsn
    /\ UNCHANGED storeVars

\* What unsubscribing an open subscription of consumer c does to the feed and to the
\* backend's listeners: the subscriber leaves the observers and the reference count goes
\* down; the last one out unsubscribes the connection, which runs the teardown.
Release(r0, l, c) ==
    LET r == [r0 EXCEPT !.observers = RemoveObserver(r0.observers, c)]
    IN  IF r0.refCount <= 0
        THEN [rx |-> r, lsn |-> l]
        ELSE IF r0.refCount > 1 \/ r0.conn = 0
        THEN [rx |-> [r EXCEPT !.refCount = r0.refCount - 1], lsn |-> l]
        ELSE [rx |-> Teardown(r), lsn |-> Stop(l, r0)]

\* A consumer unsubscribes the subscription it is subscribed with.
Unsubscribe(c) ==
    /\ c \in cons.want
    /\ cons' = [cons EXCEPT !.want = cons.want \ {c}, !.atUnsub[c] = Len(cons.got[c]),
                            !.closed = cons.closed \cup {c}]
    /\ rx' = Release(rx, lsn, c).rx
    /\ lsn' = Release(rx, lsn, c).lsn
    /\ UNCHANGED storeVars

\* Subscription.unsubscribe() begins with if (this.closed) return;
SubscriptionClosed_never(closed, c) == FALSE

SubscriptionClosed(closed, c) == c \in closed

\* A consumer calls unsubscribe again on a subscription of its own that is closed (by an
\* earlier unsubscribe or by the feed's error), possibly after subscribing anew.
UnsubscribeAgain(c) ==
    /\ c \in cons.closed /\ cons.again < MaxAgain
    /\ cons' = [cons EXCEPT !.again = cons.again + 1]
    /\ IF SubscriptionClosed(cons.closed, c)
       THEN UNCHANGED <<rx, lsn>>
       ELSE /\ rx' = Release(rx, lsn, c).rx
            /\ lsn' = Release(rx, lsn, c).lsn
    /\ UNCHANGED storeVars

\* Subject.next(value) / Subject.error(err): the event goes once to every observer the
\* subject has at that moment, and is not kept.
SubjectNext_first(got, obs, e) ==
    [c \in DOMAIN got |->
        IF obs # {} /\ c = (CHOOSE x \in obs : TRUE) THEN Append(got[c], e) ELSE got[c]]

SubjectNext(got, obs, e) ==
    [c \in DOMAIN got |-> IF c \in obs THEN Append(got[c], e) ELSE got[c]]

\* The members of a set of listener ids, in order of registration.
RECURSIVE InOrder(_)
InOrder(S) ==
    IF S = {} THEN <<>>
    ELSE LET k == CHOOSE x \in S : \A y \in S : x <= y
         IN  <<k>> \o InOrder(S \ {k})

\* The watched document changes: the backend schedules a notification for every listener
\* registered with it.
BackendChange ==
    /\ lsn.changes < MaxChanges
    /\ LET live == InOrder(lsn.listeners \ lsn.dead)
       IN  lsn' = [lsn EXCEPT !.changes = lsn.changes + 1,
                              !.notifs = lsn.notifs \o
                                  [i \in 1..Len(live) |->
                                      [listener |-> live[i], event |-> <<"value", lsn.changes + 1>>]]]
    /\ UNCHANGED <<rx, cons>>
    /\ UNCHANGED storeVars

\* A scheduled notification (the earliest of its listener) reaches the listener's callback,
\* snap => subject.next(snap.data()), whether or not the listener has been deregistered
\* meanwhile.  The callback's subject is the inner subject of the connection that
\* registered the listener: it forwards to the published subject, and so to the consumers,
\* only while its subscription lasts.
Deliver(i) ==
    /\ i \in DOMAIN lsn.notifs
    /\ \A j \in 1..(i - 1) : lsn.notifs[j].listener # lsn.notifs[i].listener
    /\ LET n == lsn.notifs[i]
       IN  /\ lsn' = [lsn EXCEPT !.notifs = SubSeq(lsn.notifs, 1, i - 1)
                                              \o SubSeq(lsn.notifs, i + 1, Len(lsn.notifs)),
                                  !.fired = IF n.listener \in rx.attached
                                            THEN Append(lsn.fired, [event |-> n.event,
                                                                    want |-> cons.want])
                                            ELSE lsn.fired]
           /\ cons' = IF n.listener \in rx.attached
                      THEN [cons EXCEPT !.got = SubjectNext(cons.got, rx.observers, n.event)]
                      ELSE cons
    /\ UNCHANGED rx
    /\ UNCHANGED storeVars

\* The backend reports an error on a registered listener, which ends it.  With an error
\* callback (error => (printError(...), subject.error(error))) the error goes through the
\* inner subject to the connection's subscriber, which disconnects (running the teardown)
\* and errors the published subject: every consumer receives the error and is unsubscribed.
\* Without one nothing reaches the feed.
ListenerError ==
    /\ \E k \in lsn.listeners \ lsn.dead :
        IF lsn.handler /\ k \in rx.attached
        THEN /\ rx' = [Teardown(rx) EXCEPT !.observers = {}, !.stopped = TRUE]
             /\ lsn' = [Stop(lsn, rx) EXCEPT !.dead = lsn.dead \cup {k}]
             /\ cons' = [cons EXCEPT !.want = cons.want \ rx.observers,
                            !.closed = cons.closed \cup rx.observers,
                            !.got = SubjectNext(cons.got, rx.observers, <<"error", k>>),
                            !.atUnsub = [c \in Consumers |->
                                IF c \in rx.observers THEN Len(cons.got[c]) + 1
                                ELSE cons.atUnsub[c]]]
             /\ console' = Append(console, Diagnostic("watch", U1, BackendError(k)))
        ELSE /\ lsn' = [lsn EXCEPT !.dead = lsn.dead \cup {k}]
             /\ UNCHANGED <<rx, cons, console>>
    /\ UNCHANGED <<store, nextAuto, errCount, extCount, queries, call, txn, reqs, hist>>

\* ---------------------------------------------------------- specifications

\* The composite operations, one caller.
Next ==
    \/ \E ks \in TemplateLists : CallCreateAndMirror(Users, DocA, ks)
    \/ CamHandler
    \/ TxnCommit
    \/ CamCreate
    \/ \E k \in {U1, U2}, ks \in MirrorLists, g \in BOOLEAN : CallMirror(k, ks, g, DocB)
    \/ MirrorRead
    \/ \E ps \in UpdateLists : CallMultiUpdate(ps, PatchX)
    \/ \E i \in DOMAIN reqs : Settle(i)
    \/ \E k \in {U1, U2}, ks \in MirrorLists, g \in BOOLEAN : CallTransactMirror(k, ks, g, DocB)
    \/ TmHandler
    \/ TmRead

Spec == Init /\ [][Next]_vars

\* mirror and transact(mirrorInTransaction) beside other clients writing to the same paths.
NextShared ==
    \/ \E k \in {U1, U2}, ks \in MirrorLists : CallMirror(k, ks, FALSE, DocB)
    \/ MirrorRead
    \/ \E i \in DOMAIN reqs : Settle(i)
    \/ \E k \in {U1, U2}, ks \in MirrorLists, g \in BOOLEAN : CallTransactMirror(k, ks, g, DocB)
    \/ TmHandler
    \/ TmRead
    \/ TxnCommit
    \/ \E p \in {U1, M1, M2}, d \in {DocB, Undefined} : ExtWrite(p, d)

SpecShared == Init /\ [][NextShared]_vars


\* The facade's operations on documents and collections and transact with handlers of
\* its own, one caller.
NextCrud ==
    \/ \E d \in {DocA, DocC} : Create(Users, d)
    \/ \E p \in {U1, U2} : FacadeRead(p)
    \/ \E p \in {U1, U2}, d \in {DocB, DocC} : FacadeSet(p, d)
    \/ \E p \in {U1, U2}, d \in {PatchX, PatchN} : Update(p, d)
    \/ \E p \in {U1, U2} : Delete(p)
    \/ ListAll(Users, NoParams)
    \/ QueryGet(Users)
    \/ \E h \in Handlers : CallTransact(h)
    \/ TxnCreate
    \/ TxnRead
    \/ TxnReadAll
    \/ TxnUpdate
    \/ TxnSet
    \/ TxnDelete
    \/ TxnCommit

SpecCrud == Init /\ [][NextCrud]_vars

\* A users collection with several documents: two with the same name, one without a name.
ListStores ==
    {U1 :> DocA @@ U2 :> DocB,
     U1 :> DocA @@ U2 :> DocB @@ K9 :> DocC @@ D7 :> DocA,
     U1 :> DocB @@ U2 :> PatchX @@ K9 :> DocA @@ M1 :> DocA}

InitList ==
    /\ store \in ListStores
    /\ nextAuto = 0 /\ errCount = 0 /\ extCount = 0
    /\ call = NoCall /\ txn = NoTxn /\ reqs = <<>>
    /\ hist = [calls |-> 0, store0 |-> store, input |-> Undefined, mirrorFailed |-> FALSE,
               issued |-> <<>>, committed |-> FALSE]
    /\ rx = [observers |-> {}, stopped |-> FALSE, refCount |-> 0, conn |-> 0, attached |-> {},
             unsub |-> 0]
    /\ lsn = NoListeners(TRUE)
    /\ console = <<>>
    /\ queries = <<>>
    /\ cons = [want |-> {}, subs |-> 0, firstSubs |-> 0,
               got |-> [c \in Consumers |-> <<>>], atUnsub |-> [c \in Consumers |-> 0],
               closed |-> {}, again |-> 0]

\* listAll with params, in each binding, one caller.
NextList ==
    \/ \E params \in ParamsSet : ListAll(Users, params)
    \/ \E params \in ParamsSet : ServerListAll(Users, params)

SpecList == InitList /\ [][NextList]_vars

\* Query objects: query, where and get, one caller.
NextQuery ==
    \/ NewQuery(Users)
    \/ \E i \in 1..MaxQueries, f \in Filters : Where(i, f)
    \/ \E i \in 1..MaxQueries : Get(i)

SpecQuery == InitList /\ [][NextQuery]_vars


\* ------------------------------------------------------------------ claims

\* The documents of collection c that the store holds now and did not hold when the
\* call started.
NewDocs(c) ==
    {p \in DOMAIN store \ DOMAIN hist.store0 : Len(p) = Len(c) + 1 /\ SubSeq(p, 1, Len(c)) = c}

AllSettled == \A i \in DOMAIN reqs : reqs[i].state # "inflight"

\* C1: createAndMirror is atomic: when a mirror write of the call has failed and the
\* call has rejected, no document created by the call is in the collection and no
\* mirror written by it exists (the store is as it was when the call started).
C1_CreateAndMirrorAtomic ==
    (call.op = "createAndMirror" /\ call.outcome = "rejected" /\ hist.mirrorFailed)
        => (NewDocs(call.col) = {} /\ store = hist.store0)

\* C2: after createAndMirror resolves, the collection holds exactly one document that
\* was not there before the call, and the returned record's id is that document's id.
C2_CreateAndMirrorCreatesOne ==
    (call.op = "createAndMirror" /\ call.outcome = "resolved")
        => (Cardinality(NewDocs(call.col)) = 1
            /\ NewDocs(call.col) = {DocPath(call.col, call.value.id)})

\* C3: after createAndMirror resolves with a record of id X, every template with X in
\* place of each ':id' names a document equal to the caller's input plus id = X.
C3_CreateAndMirrorMirrors ==
    (call.op = "createAndMirror" /\ call.outcome = "resolved")
        => \A i \in DOMAIN call.keys :
              SnapData(store, ReplaceId(call.keys[i], call.value.id))
                  = AssignId(hist.input, call.value.id)

C5_MirrorReadsEqual ==
    (call.op = "mirror" /\ ~call.given /\ call.outcome = "resolved")
        => \A i \in DOMAIN call.mkeys :
              /\ SnapData(store, call.mkeys[i]) = SnapData(store, call.key)
              /\ Read(store, call.mkeys[i]) = Read(store, call.key)

\* C5 amended: after mirror(primary, mirrors) resolves (no other writer intervening),
\* every mirror path stores the primary's data, and read(m) is read(primary) with id
\* replaced by the final segment of m: the two reads are equal when m and the primary
\* end in the same segment.
C5_MirrorReadsEqualButId ==
    (call.op = "mirror" /\ ~call.given /\ call.outcome = "resolved")
        => \A i \in DOMAIN call.mkeys :
              /\ SnapData(store, call.mkeys[i]) = SnapData(store, call.key)
              /\ Read(store, call.mkeys[i]) = AssignId(Read(store, call.key), Last(call.mkeys[i]))
              /\ Read(store, call.mkeys[i]).id = Last(call.mkeys[i])
              /\ Last(call.mkeys[i]) = Last(call.key)
                    => Read(store, call.mkeys[i]) = Read(store, call.key)

C5_Witness ==
    /\ call.op = "mirror" /\ ~call.given /\ call.outcome = "resolved"
    /\ call.mkeys = <<M1, M2>>
    /\ Read(store, M1) = Read(store, call.key)
    /\ Read(store, M2) # Read(store, call.key)


\* C6: every step of transact(mirrorInTransaction(txn, primary, mirrors)), whatever other
\* clients write in between, either is the commit, after which each mirror path holds
\* the value the primary had at the commit, or leaves every document as it was: the
\* transaction never writes only some of the mirror paths.
C6_MirrorInTransactionAtomic ==
    [][(call.op = "transactMirror" /\ ~call.given /\ call' # call)
        => IF call'.outcome = "resolved"
           THEN \A i \in DOMAIN call.mkeys :
                    SnapData(store', call.mkeys[i]) = SnapData(store, call.key)
           ELSE store' = store]_vars

C6_Witness ==
    /\ call.op = "transactMirror" /\ ~call.given /\ call.outcome = "resolved"
    /\ call.attempts > 0 /\ extCount > 0
    /\ call.mkeys = <<M1, M2>>
    /\ SnapData(store, M1) = DocB /\ SnapData(store, M2) = DocB

\* The paths a rejection names as failed: only a partial-failure error carries any.
ErrorPaths(e) == IF e.name = "PartialFailureError" THEN e.paths ELSE {}

FailedPaths == {reqs[i].path : i \in {j \in DOMAIN reqs : reqs[j].state = "failed"}}

\* C7 as stated: a multiUpdate some of whose updates failed and the others succeeded has
\* rejected with a partial-failure error naming the paths that failed, and every path
\* whose update succeeded holds the updated fields.
C7_MultiUpdatePartialFailure ==
    (call.op = "multiUpdate" /\ AllSettled /\ FailedPaths # {}
        /\ \E i \in DOMAIN reqs : reqs[i].state = "ok")
        => /\ call.outcome = "rejected"
           /\ call.error.name = "PartialFailureError"
           /\ ErrorPaths(call.error) = FailedPaths
           /\ \A i \in DOMAIN reqs :
                reqs[i].state = "ok"
                    => \A f \in DOMAIN call.data : SnapData(store, reqs[i].path)[f] = call.data[f]

\* C7 amended: a multiUpdate one of whose updates has failed has rejected with the
\* backend's own error of the first update that failed, unchanged and naming no path,
\* and every path whose update succeeded holds the updated fields.
C7_MultiUpdateFirstError ==
    (call.op = "multiUpdate" /\ FailedPaths # {})
        => /\ call.outcome = "rejected"
           /\ \E i \in DOMAIN reqs :
                /\ reqs[i].state = "failed" /\ call.error = reqs[i].error
                /\ \A j \in DOMAIN reqs :
                      reqs[j].state = "failed" => reqs[i].error.serial <= reqs[j].error.serial
           /\ call.error.name = "FirebaseError" /\ ErrorPaths(call.error) = {}
           /\ \A i \in DOMAIN reqs :
                reqs[i].state = "ok"
                    => \A f \in DOMAIN call.data : SnapData(store, reqs[i].path)[f] = call.data[f]

C7_Witness ==
    /\ call.op = "multiUpdate" /\ AllSettled /\ call.outcome = "rejected"
    /\ Cardinality(FailedPaths) = 2
    /\ \E i \in DOMAIN reqs : reqs[i].state = "ok" /\ SnapData(store, reqs[i].path).x = "1"

\* C8 as stated: when a mirror or multiUpdate call has resolved or rejected, every
\* request it issued has settled.
C8_FanInAllSettled ==
    (call.op \in {"mirror", "multiUpdate"} /\ call.outcome \in {"resolved", "rejected"})
        => AllSettled

\* C8 amended: a mirror or multiUpdate call resolves only when every request it issued
\* has succeeded, and rejects at the first request that fails, while sibling requests
\* may still be in flight (they are not cancelled and settle later): while the call is
\* pending no request has failed, and a call rejected after its fan-out has a failed request.
C8_FanInFirstFailure ==
    (call.op \in {"mirror", "multiUpdate"})
        => /\ call.outcome = "resolved" => \A i \in DOMAIN reqs : reqs[i].state = "ok"
           /\ call.outcome = "pending" => \A i \in DOMAIN reqs : reqs[i].state # "failed"
           /\ (call.outcome = "rejected" /\ reqs # <<>>) => FailedPaths # {}

C8_Witness ==
    /\ call.op = "multiUpdate" /\ call.outcome = "rejected"
    /\ \E i, j \in DOMAIN reqs : reqs[i].state = "failed" /\ reqs[j].state = "inflight"


\* The feed of watch / watchAll / watchForChanges, its consumers and its backend listener.
InitFeed ==
    /\ store = (U1 :> DocA) /\ nextAuto = 0 /\ errCount = 0 /\ extCount = 0
    /\ call = NoCall /\ txn = NoTxn /\ reqs = <<>>
    /\ hist = [calls |-> 0, store0 |-> (U1 :> DocA), input |-> Undefined, mirrorFailed |-> FALSE,
               issued |-> <<>>, committed |-> FALSE]
    /\ rx = [observers |-> {}, stopped |-> FALSE, refCount |-> 0, conn |-> 0, attached |-> {},
             unsub |-> 0]
    /\ lsn \in {NoListeners(h) : h \in BOOLEAN}
    /\ console = <<>>
    /\ queries = <<>>
    /\ cons = [want |-> {}, subs |-> 0, firstSubs |-> 0,
               got |-> [c \in Consumers |-> <<>>], atUnsub |-> [c \in Consumers |-> 0],
               closed |-> {}, again |-> 0]

NextFeed ==
    \/ \E c \in Consumers : Subscribe(c)
    \/ \E c \in Consumers : Unsubscribe(c)
    \/ \E c \in Consumers : UnsubscribeAgain(c)
    \/ BackendChange
    \/ \E i \in 1..MaxChanges : Deliver(i)
    \/ ListenerError

SpecFeed == InitFeed /\ [][NextFeed]_vars

\* C9: a consumer that has unsubscribed from a watch feed has received no event since,
\* whatever notifications were in flight when it (or the last consumer) unsubscribed and
\* reached the listener callback afterwards.
C9_NoEventAfterUnsubscribe ==
    \A c \in Consumers : c \notin cons.want => Len(cons.got[c]) = cons.atUnsub[c]

\* A notification is in flight for a listener that has been deregistered, after a
\* consumer that received an event unsubscribed, while another consumer is subscribed.
C9_Witness ==
    /\ \E i \in DOMAIN lsn.notifs : lsn.notifs[i].listener \notin lsn.listeners
    /\ \E c \in Consumers : c \notin cons.want /\ cons.got[c] # <<>>
    /\ cons.want # {}

\* C10: the feed has one registered backend listener while at least one consumer is
\* subscribed and none otherwise: none before the first subscribe, none once the last
\* consumer has unsubscribed (the unsubscribe itself calls unsub), and each subscribe
\* that finds no consumer subscribed registers a new listener (the only one registered is
\* the latest registration, and there are as many registrations as such subscribes).
C10_RefCountedListener ==
    /\ Cardinality(lsn.listeners) = IF cons.want # {} THEN 1 ELSE 0
    /\ lsn.listeners = IF cons.want # {} THEN {lsn.registrations} ELSE {}
    /\ ~rx.stopped => lsn.registrations = cons.firstSubs
    /\ lsn.stops = lsn.registrations - Cardinality(lsn.listeners)

C10_Witness ==
    /\ cons.want = Consumers /\ lsn.registrations = 2 /\ lsn.listeners = {2} /\ lsn.stops = 1

\* The events among fs (notifications that reached the connected listener) that occurred
\* while c was subscribed.
RECURSIVE EventsFor(_, _)
EventsFor(fs, c) ==
    IF fs = <<>> THEN <<>>
    ELSE (IF c \in Head(fs).want THEN <<Head(fs).event>> ELSE <<>>) \o EventsFor(Tail(fs), c)

ValueEvents(es) == SelectSeq(es, LAMBDA e : e[1] = "value")

\* C11: the value events a consumer has received are exactly the notifications that
\* reached the feed's one connected listener while the consumer was subscribed, each
\* once and in order: none from before it subscribed or from while it was unsubscribed,
\* none twice, none missing.
C11_MulticastOncePerNotification ==
    \A c \in Consumers : ValueEvents(cons.got[c]) = EventsFor(lsn.fired, c)

\* Two notifications have reached the listener; one consumer was subscribed for both, the
\* other only for the second.
C11_Witness ==
    /\ Len(lsn.fired) = 2
    /\ \E c, d \in Consumers :
          /\ Len(ValueEvents(cons.got[c])) = 2
          /\ ValueEvents(cons.got[d]) = <<lsn.fired[2].event>>
          /\ lsn.fired[1].want = {c} /\ lsn.fired[2].want = {c, d}

\* C12: once the backend listener of a watch feed has reported an error, the feed has
\* terminated and no consumer is left subscribed without the error as the last event it
\* received, whether the listener was registered with an error callback (browser binding)
\* or without one (server binding).
C12_WatchErrorTerminates ==
    lsn.dead # {}
        => /\ rx.stopped
           /\ \A c \in cons.want : cons.got[c] # <<>> /\ Last(cons.got[c])[1] = "error"

\* C13: a step in which a consumer calls unsubscribe on a subscription already closed
\* changes nothing of the feed: the reference count, the observers, the connection, the
\* backend's listeners and the number of teardowns stay as they are, and so do the other
\* consumers' subscriptions and events.  Consequently the reference count of a live feed is
\* always the number of subscribed consumers, and no teardown runs without a registration.
C13_UnsubscribeIdempotent ==
    [][/\ cons'.again # cons.again
            => (rx' = rx /\ lsn' = lsn /\ cons'.want = cons.want /\ cons'.got = cons.got)
       /\ ~rx'.stopped => (rx'.refCount = Cardinality(cons'.want) /\ rx'.observers = cons'.want)
       /\ lsn'.stops + Cardinality(lsn'.listeners) = lsn'.registrations]_vars

\* Unsubscribe has been called twice on closed subscriptions while another consumer stays
\* subscribed, the listener registered and never torn down, and has received more events
\* than the consumer that left.
C13_Witness ==
    /\ cons.again = 2
    /\ \E c \in cons.want, d \in cons.closed \ cons.want :
          /\ Len(cons.got[c]) > Len(cons.got[d]) /\ cons.got[d] # <<>>
    /\ lsn.listeners = {lsn.registrations} /\ lsn.stops = 0

\* A document returned from path p carries id = the final segment of p.
HasId(d, p) == d = Undefined \/ ("id" \in DOMAIN d /\ d.id = Last(p))

\* The operation of a handler whose result the handler returns.
Returning(prog) ==
    LET R == {i \in DOMAIN prog : prog[i].op \in {"create", "read", "readAll"}}
    IN  CHOOSE i \in R : \A j \in R : j <= i

\* C14: every document a read path has returned (facade read, listAll, query get, and
\* the Transaction Handle's read and readAll as returned through transact) has its id
\* field set to the final segment of the path it is located at.
C14_IdOnEveryRead ==
    call.outcome = "resolved"
        => /\ call.op = "read" => HasId(call.value, call.key)
           /\ call.op \in {"listAll", "queryGet"}
                => \A i \in DOMAIN call.value.docs :
                       HasId(call.value.docs[i], Docs(store, call.col)[i])
           /\ call.op = "transact"
                => LET o == call.prog[Returning(call.prog)]
                   IN  /\ o.op = "read" => HasId(call.value, o.path)
                       /\ o.op = "readAll"
                            => \A i \in DOMAIN o.path : HasId(call.value.docs[i], o.path[i])

\* C15: when create(c, d) has returned a record with id X, read(c/X) yields a document
\* with the fields of the input d, each with d's value, and id = X (in place of any id
\* the input carried).
C15_CreateReadRoundTrip ==
    (call.op = "create" /\ call.outcome = "resolved")
        => LET r == Read(store, DocPath(call.col, call.value.id))
           IN  /\ r # Undefined
               /\ DOMAIN r = DOMAIN hist.input \cup {"id"}
               /\ r.id = call.value.id
               /\ \A f \in DOMAIN hist.input \ {"id"} : r[f] = hist.input[f]

\* A create whose input carried the id of another document has returned a new id.
C15_Witness ==
    /\ call.op = "create" /\ call.outcome = "resolved"
    /\ hist.input = DocC /\ call.value.id # DocC.id
    /\ Read(store, DocPath(call.col, call.value.id)).name = "C"
    /\ hist.calls = 2

\* The document at p was not there when the call started, no document that was there
\* has been changed by the call's create, and what is stored at p does not carry id v.
CreatedFresh(p, v) ==
    /\ p \in DOMAIN store /\ p \notin DOMAIN hist.store0
    /\ \A q \in DOMAIN hist.store0 : Len(q) = Len(p) => SnapData(store, q) = hist.store0[q]
    /\ "id" \notin DOMAIN store[p] \/ store[p].id # v

\* C16: a create (facade, or Transaction Handle once committed) whose input carries an
\* id has made its document under a store-assigned id that no document of the collection
\* had, has overwritten nothing, has returned that id, and the stored document does not
\* carry the id the caller supplied.  (The handler that creates passes DocC.)
C16_CreateIgnoresCallerId ==
    /\ (call.op = "create" /\ call.outcome = "resolved" /\ "id" \in DOMAIN hist.input)
            => /\ call.value.id # hist.input.id
               /\ CreatedFresh(DocPath(call.col, call.value.id), hist.input.id)
    /\ (call.op = "transact" /\ call.outcome = "resolved" /\ call.prog[1].op = "create")
            => /\ call.value.id # DocC.id
               /\ CreatedFresh(DocPath(call.prog[1].path, call.value.id), DocC.id)

\* C17 as stated: after update(path, p) on an existing document, read(path) shows every
\* field named in p with p's value and every other field with the value read(path)
\* showed before.
C17_UpdateMerges ==
    (call.op = "update" /\ call.outcome = "resolved" /\ call.key \in DOMAIN hist.store0)
        => LET r == Read(store, call.key)
               r0 == Read(hist.store0, call.key)
           IN  /\ \A f \in DOMAIN call.data : f \in DOMAIN r /\ r[f] = call.data[f]
               /\ \A f \in DOMAIN r0 \ DOMAIN call.data : f \in DOMAIN r /\ r[f] = r0[f]

\* C17 amended: after update(path, p) on an existing document, read(path) shows every
\* field named in p other than id with p's value, id as the final segment of path
\* (whatever id p names), every other field with the value it had before, and no field
\* besides.
C17_UpdateMergesButId ==
    (call.op = "update" /\ call.outcome = "resolved" /\ call.key \in DOMAIN hist.store0)
        => LET r == Read(store, call.key)
               r0 == Read(hist.store0, call.key)
           IN  /\ \A f \in DOMAIN call.data \ {"id"} : f \in DOMAIN r /\ r[f] = call.data[f]
               /\ r.id = Last(call.key)
               /\ \A f \in DOMAIN r0 \ DOMAIN call.data : f \in DOMAIN r /\ r[f] = r0[f]
               /\ DOMAIN r = DOMAIN r0 \cup DOMAIN call.data

\* An update naming a field the document had, and an id, on a document with another field.
C17_Witness ==
    /\ call.op = "update" /\ call.outcome = "resolved" /\ call.data = PatchN
    /\ call.key \in DOMAIN hist.store0 /\ hist.store0[call.key] = DocB
    /\ Read(store, call.key) = [name |-> "N", tag |-> "t", id |-> Last(call.key)]
    /\ store[call.key].id = "k9"

\* C18: after set(path, data) the document at path exists and holds exactly the fields
\* of data with data's values, whether or not there was a document at path before
\* (fields it had that data lacks are gone), and every other document is as it was.
C18_SetOverwrites ==
    (call.op = "set" /\ call.outcome = "resolved")
        => /\ call.key \in DOMAIN store
           /\ DOMAIN store[call.key] = DOMAIN call.data
           /\ \A f \in DOMAIN call.data : store[call.key][f] = call.data[f]
           /\ \A q \in (DOMAIN store \cup DOMAIN hist.store0) \ {call.key} :
                 SnapData(store, q) = SnapData(hist.store0, q)

\* A set on a document that had a field the data lacks.
C18_Witness ==
    /\ call.op = "set" /\ call.outcome = "resolved" /\ call.data = DocC
    /\ call.key \in DOMAIN hist.store0 /\ "tag" \in DOMAIN hist.store0[call.key]
    /\ "tag" \notin DOMAIN store[call.key]

\* The handler of the transact call c has performed all its operations and returned.
HandlerCompleted(c) == c.ip > Len(c.prog)

WrittenPaths(ws) == {ws[i].path : i \in DOMAIN ws}

LastWrite(ws, p) ==
    ws[CHOOSE i \in DOMAIN ws : ws[i].path = p /\ \A j \in DOMAIN ws : ws[j].path = p => j <= i]

\* Store s1 shows every write of ws (for a path written more than once, the last one),
\* and is s0 everywhere else.
Visible(s0, s1, ws) ==
    /\ \A p \in WrittenPaths(ws) :
          LET w == LastWrite(ws, p)
          IN  IF w.kind = "delete" THEN p \notin DOMAIN s1
              ELSE IF w.kind = "set" THEN p \in DOMAIN s1 /\ s1[p] = w.data
              ELSE p \in DOMAIN s1 /\ \A f \in DOMAIN w.data : s1[p][f] = w.data[f]
    /\ \A p \in (DOMAIN s0 \cup DOMAIN s1) \ WrittenPaths(ws) : SnapData(s1, p) = SnapData(s0, p)

\* C19 as stated: while a transact call is pending or once it has rejected the store is
\* as it was when the call started; the call rejects only if its handler (an operation
\* on the handle) failed, and a handler that completed means the call resolves.
C19_TransactAllOrNothing ==
    call.op = "transact"
        => /\ call.outcome \in {"pending", "rejected"} => store = hist.store0
           /\ call.outcome = "rejected" => ~HandlerCompleted(call)
           /\ call.outcome = "resolved" => HandlerCompleted(call)

\* C19 amended: every step of a transact call either resolves it, which only happens
\* after the handler has completed, makes all the staged writes visible in that one step
\* and returns the handler's value; or leaves every document as it was.  A step that
\* rejects the call (an operation of the handler failing, or the backend refusing the
\* commit of a completed handler) rejects it with the error raised in that step, unchanged.
C19_TransactAtomicCommit ==
    [][(call.op = "transact" /\ call.outcome = "pending" /\ call' # call)
        => IF call'.outcome = "resolved"
           THEN /\ HandlerCompleted(call)
                /\ call'.value = call.value
                /\ Visible(store, store', txn.writes)
           ELSE /\ store' = store
                /\ call'.outcome = "rejected"
                      => (errCount' = errCount + 1 /\ call'.error = BackendError(errCount'))]_vars

\* A handler that read two documents, set a third and updated one of those read has
\* been committed and its value returned.
C19_Witness ==
    /\ call.op = "transact" /\ call.outcome = "resolved" /\ Len(call.prog) = 3
    /\ call.prog[1].op = "readAll" /\ call.value.docs[2] # Undefined
    /\ SnapData(store, M2) = DocB /\ M2 \notin DOMAIN hist.store0
    /\ SnapData(store, U2).x = "1"

\* The path a diagnostic of the call c has to name: the collection or document the call
\* is on, or that of the handler's operation that failed.
Target(c) ==
    IF c.op \in {"create", "listAll", "queryGet"} THEN c.col
    ELSE IF c.op # "transact" THEN c.key
    ELSE IF c.ip \in DOMAIN c.prog THEN c.prog[c.ip].path
    ELSE <<>>

\* C20: when a facade operation (create, read, set, update, delete, listAll, query get,
\* transact) or an operation on the Transaction Handle has failed, the caller has the
\* backend's own error and the console holds a diagnostic for that error that names the
\* operation's path.
C20_UniformErrorAnnotation ==
    (call.op \in {"create", "read", "set", "update", "delete", "listAll", "queryGet", "transact"}
        /\ call.outcome = "rejected")
        => /\ call.error.name = "FirebaseError"
           /\ \E i \in DOMAIN console :
                 console[i].error = call.error /\ console[i].path = Target(call)

\* The documents of the collection a listAll call was made on.
Listed(c) == {p \in DOMAIN store : Len(p) = Len(c) + 1 /\ SubSeq(p, 1, Len(c)) = c}

\* The paths of the documents a resolved listAll call returned, in the order returned.
ReturnedPaths == [i \in DOMAIN call.value.docs |-> DocPath(call.col, call.value.docs[i].id)]

\* The documents a startAfter string designates: the document at that path, and the
\* documents whose order field has that value.
CursorDocs(c, o, v) ==
    {p \in Listed(c) : p = Segments(v) \/ (o.field \in DOMAIN store[p] /\ store[p][o.field] = v)}

\* The query that orders a collection as the params ask.
Ordering(c) == [CollectionQuery(c) EXCEPT !.orderBy = call.params.order]

\* C21: a listAll call with an order that resolves returns its documents sorted by the
\* order field in the given direction; with a positive limit n it returns at most n; with
\* startAfter it returns neither the cursor document nor a document ordered before it.
C21_ListAllWindow ==
    (call.op = "listAll" /\ call.outcome = "resolved" /\ call.params.order # <<>>)
        => LET ps == ReturnedPaths
               o == call.params.order[1]
               q == Ordering(call.col)
               curs == IF call.params.startAfter = <<>> THEN {}
                       ELSE CursorDocs(call.col, o, call.params.startAfter[1])
               excluded == {p \in Listed(call.col) :
                              \/ p \in curs
                              \/ \E x \in curs : Precedes(store, q, p, x)}
           IN  /\ \A i, j \in DOMAIN ps : i < j => Precedes(store, q, ps[i], ps[j])
               /\ (call.params.limit # <<>> /\ call.params.limit[1] > 0)
                      => Len(ps) <= call.params.limit[1]
               /\ \A i \in DOMAIN ps : ps[i] \notin excluded

\* What listAll(c, params) yields on store s in each binding: the request sent to the
\* backend and the documents returned, or the error thrown while the request is built.
BrowserOutcome(s, c, params) ==
    IF BuilderThrows(ListAllQuery(c, params)) THEN [thrown |-> TRUE]
    ELSE [request |-> ListAllQuery(c, params),
          result |-> ListAllResult(s, ListAllQuery(c, params))]

ServerOutcome(s, c, params) ==
    IF DocThrows(params) \/ BuilderThrows(ServerListAllQuery(c, params)) THEN [thrown |-> TRUE]
    ELSE [request |-> ServerListAllQuery(c, params),
          result |-> ListAllResult(s, ServerListAllQuery(c, params))]

\* C22: the two bindings are interchangeable: a listAll call that the backend does not
\* refuse sends the request, and resolves with the documents or throws, exactly as the
\* same call on the same store does in the other binding.
C22_BindingsInterchangeable ==
    (call.op = "listAll" /\ call.outcome # "pending")
        => /\ BrowserOutcome(store, call.col, call.params)
                  = ServerOutcome(store, call.col, call.params)
           /\ call.outcome = "resolved"
                  => call.value = (IF call.binding = "browser"
                                   THEN ServerOutcome(store, call.col, call.params)
                                   ELSE BrowserOutcome(store, call.col, call.params)).result

\* The documents of collection c in store s that satisfy every predicate of fs.
Satisfying(s, c, fs) ==
    {p \in DOMAIN s : /\ Len(p) = Len(c) + 1 /\ SubSeq(p, 1, Len(c)) = c
                      /\ \A k \in DOMAIN fs : Matches(s[p], fs[k])}

\* C23: where leaves every existing Query object as it was and returns a new one whose
\* predicates are those of the object it was called on plus the new one; a get on a Query
\* object returns exactly the documents that satisfy that object's own predicates, whatever
\* has been derived from it since.
C23_QueryImmutable ==
    [][/\ \A i \in DOMAIN queries : i \in DOMAIN queries' /\ queries'[i] = queries[i]
       /\ Len(queries') > Len(queries)
              => /\ Len(queries') = Len(queries) + 1
                 /\ \/ Last(queries') = CollectionQuery(Users)
                    \/ \E i \in DOMAIN queries, f \in Filters :
                           /\ Last(queries').collection = queries[i].collection
                           /\ Last(queries').filters = Append(queries[i].filters, f)
       /\ (call'.op = "get" /\ call'.outcome = "resolved" /\ hist'.calls = hist.calls + 1)
              => LET mine == Satisfying(store, call'.col, queries[call'.query].filters)
                 IN  /\ Len(call'.value.docs) = Cardinality(mine)
                     /\ \A p \in mine : \E k \in DOMAIN call'.value.docs :
                            call'.value.docs[k] = store[p]
      ]_vars

\* A query was derived with where from the first Query object, and a later get on the
\* first object has returned a document the derived query's predicate rejects.
C23_Witness ==
    /\ Len(queries) >= 2
    /\ queries[1].filters = <<>>
    /\ \E j \in 2..Len(queries) :
           /\ Len(queries[j].filters) = 1
           /\ call.op = "get" /\ call.query = 1 /\ call.outcome = "resolved"
           /\ \E k \in DOMAIN call.value.docs : ~Matches(call.value.docs[k], queries[j].filters[1])

\* The handler of the transact call began with a create, and that create has returned.
CreateReturned ==
    /\ call.op = "transact" /\ call.prog # <<>>
    /\ call.prog[1].op = "create" /\ call.ip > 1

\* C24: the record a Transaction Handle's create returns carries its id while the
\* transaction is open, when only the write is staged and no document has that id; the
\* document exists once the transaction has committed, and does not exist if the
\* transaction was aborted.
C24_TxnCreateIdBeforeCommit ==
    CreateReturned
        => LET record == call.prog[1].data
               path == DocPath(call.prog[1].path, record.id)
           IN  /\ call.value = record
               /\ call.outcome = "pending"
                      => /\ txn.open
                         /\ path \notin DOMAIN store
                         /\ \E i \in DOMAIN txn.writes : txn.writes[i].path = path
               /\ call.outcome = "resolved" => path \in DOMAIN store
               /\ call.outcome = "rejected" => path \notin DOMAIN store

\* A create returned its record in a transaction whose handler completed and whose commit
\* the backend refused.
C24_Witness ==
    /\ CreateReturned
    /\ call.outcome = "rejected" /\ call.ip > Len(call.prog)
    /\ "id" \in DOMAIN call.value /\ call.value.id \in {AutoIds[i] : i \in DOMAIN AutoIds}

\* C25: on the transaction handle of createAndMirror or of mirrorInTransaction no read is
\* issued after a write: createAndMirror's handler issues no read at all, and
\* mirrorInTransaction without data issues its read of the primary first.
C25_ReadsBeforeWrites ==
    (call.op \in {"createAndMirror", "transactMirror"})
        => /\ \A i, j \in DOMAIN hist.issued :
                  (i < j /\ hist.issued[i].op = "set") => hist.issued[j].op # "get"
           /\ call.op = "createAndMirror"
                  => \A i \in DOMAIN hist.issued : hist.issued[i].op # "get"
           /\ (call.op = "transactMirror" /\ ~call.given /\ hist.issued # <<>>)
                  => hist.issued[1] = [op |-> "get", path |-> call.key]

\* mirrorInTransaction without data has read the primary and staged two mirror writes.
C25_Witness ==
    /\ call.op = "transactMirror" /\ ~call.given /\ txn.open
    /\ Len(hist.issued) = 3
    /\ hist.issued[1].op = "get" /\ hist.issued[2].op = "set" /\ hist.issued[3].op = "set"

\* C26: when createAndMirror has rejected without its transaction having committed (the
\* staged create or a staged mirror write threw, or the backend refused the commit), the
\* error is the one raised there, no request was issued besides the transaction, and the
\* store is as it was when the call started.
C26_TransactionalFailureLeavesNothing ==
    (call.op = "createAndMirror" /\ call.outcome = "rejected" /\ ~hist.committed)
        => /\ store = hist.store0
           /\ reqs = <<>> /\ ~txn.open
           /\ call.error = BackendError(errCount)
           /\ call.pc = "done"

\* createAndMirror with two mirror keys has rejected because the backend refused to
\* commit the transaction in which the create and both mirror writes were staged.
C26_Witness ==
    /\ call.op = "createAndMirror" /\ call.outcome = "rejected" /\ ~hist.committed
    /\ Len(call.keys) = 2 /\ Len(hist.issued) = 3
    /\ call.key # <<>>

\* How many times the deregistration function of registration k has been invoked.
Invocations(k) == Cardinality({i \in DOMAIN lsn.unsubCalls : lsn.unsubCalls[i] = k})

\* C27: every call of stop() invokes the deregistration function of a registration that
\* has been made; a registration's function has been invoked once if its listener is no
\* longer registered and not at all if it still is; and once an error has terminated the
\* feed no listener is registered.
C27_StartStopBalance ==
    /\ \A i \in DOMAIN lsn.unsubCalls : lsn.unsubCalls[i] \in 1..lsn.registrations
    /\ \A k \in 1..lsn.registrations :
           Invocations(k) = IF k \in lsn.listeners THEN 0 ELSE 1
    /\ rx.stopped => lsn.listeners = {}

\* The feed was connected twice: the first listener was deregistered when its last
\* consumer unsubscribed, the second when the backend reported an error on it.
C27_Witness ==
    /\ rx.stopped
    /\ lsn.registrations = 2 /\ lsn.unsubCalls = <<1, 2>> /\ lsn.dead = {2}

\* C28: the step in which the backend listener of a watchAll or watchForChanges feed
\* reports an error delivers an error event to every consumer subscribed at that moment,
\* ends their subscriptions and terminates the feed, whichever binding registered the
\* listener.
C28_CollectionFeedErrorTerminates ==
    [][lsn'.dead # lsn.dead
          => /\ rx'.stopped
             /\ \A c \in cons.want :
                    /\ c \notin cons'.want
                    /\ Len(cons'.got[c]) = Len(cons.got[c]) + 1
                    /\ Last(cons'.got[c])[1] = "error"
      ]_vars

\* The handler of the transact call updates a path that held no document when the call
\* started and that no earlier operation of the handler sets.
UpdatesMissing ==
    /\ call.op = "transact"
    /\ \E i \in DOMAIN call.prog :
           /\ call.prog[i].op = "update"
           /\ call.prog[i].path \notin DOMAIN hist.store0
           /\ \A j \in 1..(i - 1) :
                  call.prog[j].op \in {"set", "create"} => call.prog[j].path # call.prog[i].path

\* C29: a facade update of a path that holds no document, when it resolves, has created
\* there a document with exactly the fields of the data given; a transaction whose handler
\* updates a path that holds no document never resolves, and none of its writes is
\* applied: once it is over it has rejected and the store is as it was.
C29_UpdateOnMissingDocument ==
    /\ (call.op = "update" /\ call.outcome = "resolved" /\ call.key \notin DOMAIN hist.store0)
           => /\ call.key \in DOMAIN store
              /\ store[call.key] = hist.input
              /\ \A q \in DOMAIN hist.store0 : q \in DOMAIN store /\ store[q] = hist.store0[q]
    /\ UpdatesMissing
           => /\ call.outcome # "resolved"
              /\ store = hist.store0
              /\ call.pc = "done" => call.outcome = "rejected"

\* A handler that set one document and then updated a path holding no document ran to
\* its end, and the backend refused the commit.
C29_Witness ==
    /\ UpdatesMissing
    /\ call.outcome = "rejected" /\ call.ip > Len(call.prog)
    /\ \E i \in DOMAIN call.prog : call.prog[i].op = "set"

\* The paths whose document (or absence of one) is not what it was when the call started.
Changed == {p \in DOMAIN store \cup DOMAIN hist.store0 : SnapData(store, p) # SnapData(hist.store0, p)}

\* The paths a call lists: the mirror paths of mirror and mirrorInTransaction, the
\* docPaths of multiUpdate.
ListedPaths == {call.keys[i] : i \in DOMAIN call.keys}

\* C30: at every moment of a mirror, mirrorInTransaction or multiUpdate call and after it,
\* resolved or rejected, the only documents that differ from what they were when the call
\* started are at paths the call lists; the primary of a mirror, which is not among its
\* mirror paths, is as it was.
C30_WritesOnlyListedPaths ==
    (call.op \in {"mirror", "transactMirror", "multiUpdate"})
        => /\ Changed \subseteq ListedPaths
           /\ (call.op # "multiUpdate" /\ call.key \notin ListedPaths)
                  => SnapData(store, call.key) = SnapData(hist.store0, call.key)

\* mirror to two paths has rejected after one of its two writes was applied.
C30_Witness ==
    /\ call.op = "mirror" /\ call.outcome = "rejected"
    /\ Len(call.keys) = 2
    /\ Cardinality(Changed) = 1
    /\ AllSettled

====
